---- MODULE Spec2Model ----
(***************************************************************************)
(* Keen: the menu-bar app (kindle_menubar.py) and the diagnostics CLI      *)
(* (keen/diagnose.py).  The model covers the outbound URL safety guard     *)
(* (check_url_ssrf, _is_public_ip), the two send entry points, the         *)
(* background send pipeline and what each of them writes to the log.       *)
(*                                                                         *)
(* A URL string is represented by the pieces urlparse splits it into; an   *)
(* IP address by the set of ipaddress flags that are true of it.           *)
(***************************************************************************)
EXTENDS Integers, Sequences, FiniteSets, TLC

\* ------------------------------------------------------------------ bounds
\* longest answer of the resolver (number of addrinfo entries)
MaxAddrs == 2
\* number of send actions the user invokes
MaxActions == 2
\* number of send actions in the runs checked for termination (SpecLive)
MaxLiveSends == 1
\* number of runs of the diagnostics CLI
MaxDiagRuns == 2

\* ------------------------------------------------------------ IP addresses
\* The seven properties of ipaddress.IPv4Address / IPv6Address that
\* _is_public_ip reads.  An address is the set of the flags that are True.
Flags ==
  {"is_global", "is_private", "is_loopback", "is_link_local",
   "is_reserved", "is_multicast", "is_unspecified"}

NonPublicFlags == Flags \ {"is_global"}

\* _is_public_ip without the is_reserved test
_is_public_ip_no_reserved(addr) ==
  "is_global" \in addr /\ ~( "is_private" \in addr
                              \/ "is_loopback" \in addr
                              \/ "is_link_local" \in addr
                              \/ "is_multicast" \in addr
                              \/ "is_unspecified" \in addr )

_is_public_ip(addr) ==
  "is_global" \in addr /\ ~( "is_private" \in addr
                              \/ "is_loopback" \in addr
                              \/ "is_link_local" \in addr
                              \/ "is_reserved" \in addr
                              \/ "is_multicast" \in addr
                              \/ "is_unspecified" \in addr )

\* Addresses used as URL literals and resolver answers: the public one, the
\* one with no flag at all (100.64.0.0/10: neither global nor private), one
\* per non-public flag, and two that are global-flagged yet special.
SampleAddrs ==
  { {"is_global"}, {} }
  \cup { {f} : f \in NonPublicFlags }
  \cup { {"is_global", "is_multicast"}, {"is_global", "is_reserved"} }

\* ------------------------------------------------------------------- URLs
\* host: what ipaddress.ip_address(hostname) makes of the hostname.
NoHost == [kind |-> "none", flags |-> {}]
NameHost == [kind |-> "name", flags |-> {}]
LiteralHost(a) == [kind |-> "literal", flags |-> a]

Hosts == {NoHost, NameHost} \cup { LiteralHost(a) : a \in SampleAddrs }

\* A URL string by its textual pieces.  wellformed = FALSE stands for a
\* string urlsplit raises ValueError on (e.g. "http://[::1").
MkUrl(wf, scheme, userinfo, host, query, fragment) ==
  [wellformed |-> wf, scheme |-> scheme, userinfo |-> userinfo, host |-> host,
   path |-> "/a", params |-> "", query |-> query, fragment |-> fragment]

\* urlparse(url): the 6-tuple, or ValueError
urlparse(url) ==
  IF ~url.wellformed
    THEN [exc |-> "ValueError"]
    ELSE [exc |-> "",
          scheme |-> url.scheme,
          netloc |-> [userinfo |-> url.userinfo, host |-> url.host],
          path |-> url.path, params |-> url.params,
          query |-> url.query, fragment |-> url.fragment]

\* bool(parsed.netloc)
NetlocNonEmpty(netloc) ==
  netloc.userinfo # "" \/ netloc.host.kind # "none"

\* urlunparse((scheme, netloc, path, params, query, fragment))
urlunparse(scheme, netloc, path, params, query, fragment) ==
  [wellformed |-> TRUE, scheme |-> scheme, userinfo |-> netloc.userinfo,
   host |-> netloc.host, path |-> path, params |-> params,
   query |-> query, fragment |-> fragment]

\* the string "<unparseable-url>"
UnparseableUrl ==
  [wellformed |-> TRUE, scheme |-> "", userinfo |-> "", host |-> [kind |-> "none", flags |-> {}],
   path |-> "<unparseable-url>", params |-> "", query |-> "", fragment |-> ""]

redact_url(url) ==
  LET parsed == urlparse(url) IN
  IF parsed.exc # ""
    THEN UnparseableUrl
    ELSE urlunparse(parsed.scheme, parsed.netloc, parsed.path, "", "", "")

\* is_valid_url not looking at the network location
is_valid_url_scheme_only(url) ==
  LET parsed == urlparse(url) IN
  IF parsed.exc # ""
    THEN [exc |-> parsed.exc, ret |-> FALSE]
    ELSE [exc |-> "", ret |-> parsed.scheme \in {"http", "https"}]

\* is_valid_url ignoring the scheme
is_valid_url_any_scheme(url) ==
  LET parsed == urlparse(url) IN
  IF parsed.exc # ""
    THEN [exc |-> parsed.exc, ret |-> FALSE]
    ELSE [exc |-> "", ret |-> NetlocNonEmpty(parsed.netloc)]

is_valid_url(url) ==
  LET parsed == urlparse(url) IN
  IF parsed.exc # ""
    THEN [exc |-> parsed.exc, ret |-> FALSE]
    ELSE [exc |-> "",
          ret |-> parsed.scheme \in {"http", "https"} /\ NetlocNonEmpty(parsed.netloc)]

\* ----------------------------------------------------------- the resolver
\* One addrinfo entry: sockaddr[0] parses to an address, or does not.
Parsed(a) == [ok |-> TRUE, flags |-> a]
Unparsed == [ok |-> FALSE, flags |-> {}]
AddrInfos == { Parsed(a) : a \in SampleAddrs } \cup {Unparsed}

RECURSIVE SeqsUpTo(_, _)
SeqsUpTo(S, n) ==
  IF n = 0 THEN { <<>> }
  ELSE LET shorter == SeqsUpTo(S, n - 1) IN
       shorter \cup { Append(s, x) : s \in { t \in shorter : Len(t) = n - 1 }, x \in S }

\* What socket.getaddrinfo can do: raise gaierror, raise another exception
\* (UnicodeError from the idna encoding of the host), or return a list.
ResolverAnswers ==
  { [kind |-> "gaierror", addrinfos |-> <<>>],
    [kind |-> "UnicodeError", addrinfos |-> <<>>] }
  \cup { [kind |-> "ok", addrinfos |-> s] : s \in SeqsUpTo(AddrInfos, MaxAddrs) }

\* ---------------------------------------------------------- check_url_ssrf
R_NoHostname == "URL has no hostname"
R_LiteralNonPublic == "URL points to a non-public IP address"
R_DnsFailed == "DNS resolution failed for URL hostname"
R_DnsEmpty == "DNS resolution returned no results"
R_Unparseable == "Unparseable resolved IP"
R_ResolvedNonPublic == "URL resolves to a non-public IP address"

Reasons ==
  {R_NoHostname, R_LiteralNonPublic, R_DnsFailed, R_DnsEmpty, R_Unparseable,
   R_ResolvedNonPublic}

\* the loop looking at the first entry only
CheckAddrInfos_first_only(addrinfos) ==
  IF addrinfos = <<>> THEN "None"
  ELSE LET e == Head(addrinfos) IN
       IF ~e.ok THEN R_Unparseable
       ELSE IF ~_is_public_ip(e.flags) THEN R_ResolvedNonPublic
       ELSE "None"

\* the for loop over addrinfos: the first entry that fails decides
RECURSIVE CheckAddrInfos(_)
CheckAddrInfos(addrinfos) ==
  IF addrinfos = <<>> THEN "None"
  ELSE LET e == Head(addrinfos) IN
       IF ~e.ok THEN R_Unparseable
       ELSE IF ~_is_public_ip(e.flags) THEN R_ResolvedNonPublic
       ELSE CheckAddrInfos(Tail(addrinfos))

\* ResolveAndCheck failing open on a resolver error or an empty answer
ResolveAndCheck_fail_open(answer) ==
  IF answer.kind # "ok" THEN [exc |-> "", ret |-> "None", dns |-> TRUE]
  ELSE [exc |-> "", ret |-> CheckAddrInfos(answer.addrinfos), dns |-> TRUE]

\* lines 95-113: getaddrinfo and the checks of its answer
ResolveAndCheck(answer) ==
  IF answer.kind = "gaierror" THEN [exc |-> "", ret |-> R_DnsFailed, dns |-> TRUE]
  ELSE IF answer.kind # "ok" THEN [exc |-> answer.kind, ret |-> "None", dns |-> TRUE]
  ELSE IF answer.addrinfos = <<>> THEN [exc |-> "", ret |-> R_DnsEmpty, dns |-> TRUE]
  ELSE [exc |-> "", ret |-> CheckAddrInfos(answer.addrinfos), dns |-> TRUE]

\* check_url_ssrf without the literal test
check_url_ssrf_no_literal(url, answer) ==
  LET parsed == urlparse(url) IN
  IF parsed.exc # "" THEN [exc |-> parsed.exc, ret |-> "None", dns |-> FALSE]
  ELSE IF parsed.netloc.host.kind = "none"
    THEN [exc |-> "", ret |-> R_NoHostname, dns |-> FALSE]
  ELSE ResolveAndCheck(answer)

\* check_url_ssrf(url) with `answer` what getaddrinfo does if it is called.
\* ret is the returned value ("None" = allowed), exc the exception that
\* leaves the function ("" = none), dns whether getaddrinfo was called.
check_url_ssrf(url, answer) ==
  LET parsed == urlparse(url) IN
  IF parsed.exc # "" THEN [exc |-> parsed.exc, ret |-> "None", dns |-> FALSE]
  ELSE LET hostname == parsed.netloc.host IN
       IF hostname.kind = "none"
         THEN [exc |-> "", ret |-> R_NoHostname, dns |-> FALSE]
       ELSE IF hostname.kind = "literal" /\ ~_is_public_ip(hostname.flags)
         THEN [exc |-> "", ret |-> R_LiteralNonPublic, dns |-> FALSE]
       ELSE ResolveAndCheck(answer)

Allowed(r) == r.exc = "" /\ r.ret = "None"
Rejected(r) == r.exc = "" /\ r.ret \in Reasons

\* ------------------------------------------------------------------ state
VARIABLES
  addr,            \* SpecIp: the address handed to _is_public_ip
  verdict,         \* SpecIp: "unset", or what _is_public_ip returned
  g_url,           \* SpecGuard: the URL handed to check_url_ssrf
  g_answer,        \* SpecGuard: what getaddrinfo does if it is called
  g_done,          \* SpecGuard: check_url_ssrf has returned or raised
  g_result,        \* SpecGuard: its result
  acts,            \* the send actions invoked so far, in order
  workers_started, \* number of threading.Thread(...).start() calls
  log,             \* the records written to keen.log
  title,           \* self.title
  last_status,     \* self._last_status
  timer,           \* self._title_reset_timer
  diag,            \* exit codes of the runs of the diagnostics CLI
  r_in,            \* SpecRedact: the two URLs handed to redact_url
  r_out,           \* SpecRedact: <<>>, or what redact_url returned for each
  m_in,            \* SpecSmtp: the program, its mail settings, the failing call
  m_out,           \* SpecSmtp: <<>>, or <<what the send function did>>
  environ,         \* SpecConfig: os.environ (KINDLE_EMAIL, SMTP_EMAIL)
  config_file,     \* SpecConfig: config.json
  keyring,         \* SpecConfig: the OS keychain, account -> password
  config,          \* SpecConfig: self.config
  cfg_hist,        \* SpecConfig: what the last configuration operation did
  calls,           \* SpecStatus: the _set_status calls in progress
  timers,          \* SpecStatus: the threading.Timer objects created
  timer_ref,       \* SpecStatus: self._title_reset_timer (0 = None)
  title_by            \* SpecStatus: the _set_status call whose symbol self.title shows

ip_vars == <<addr, verdict>>
guard_vars == <<g_url, g_answer, g_done, g_result>>
app_vars == <<acts, workers_started, log, title, last_status, timer, diag>>
redact_vars == <<r_in, r_out>>
smtp_vars == <<m_in, m_out>>
cfg_vars == <<environ, config_file, keyring, config, cfg_hist>>
status_vars == <<calls, timers, timer_ref, title_by>>
aux_vars == <<redact_vars, smtp_vars, cfg_vars, status_vars>>
vars == <<addr, verdict, g_url, g_answer, g_done, g_result,
          acts, workers_started, log, title, last_status, timer, diag,
          r_in, r_out, m_in, m_out, environ, config_file, keyring, config, cfg_hist,
          calls, timers, timer_ref, title_by>>

NoResult == [exc |-> "", ret |-> "unset", dns |-> FALSE]
NoTimer == [pending |-> FALSE, delay |-> 0]

\* KindleSendApp.__init__
AppInit ==
  /\ acts = <<>>
  /\ workers_started = 0
  /\ log = {}
  /\ title = ""
  /\ last_status = ""
  /\ timer = NoTimer
  /\ diag = <<>>

IpIdle == addr = {} /\ verdict = "unset"

GuardIdle ==
  /\ g_url = UnparseableUrl
  /\ g_answer = [kind |-> "gaierror", addrinfos |-> <<>>]
  /\ g_done = FALSE
  /\ g_result = NoResult

RedactIdle == r_in = <<>> /\ r_out = <<>>

SmtpIdle == m_in = "unset" /\ m_out = <<>>

CfgIdle ==
  /\ environ = "unset"
  /\ config_file = "unset"
  /\ keyring = "unset"
  /\ config = "unset"
  /\ cfg_hist = "unset"

StatusIdle == calls = <<>> /\ timers = <<>> /\ timer_ref = 0 /\ title_by = 0

AuxIdle == RedactIdle /\ SmtpIdle /\ CfgIdle /\ StatusIdle

\* ------------------------------------------------- SpecIp: _is_public_ip
InitIp ==
  /\ addr \in SUBSET Flags
  /\ verdict = "unset"
  /\ GuardIdle
  /\ AppInit
  /\ AuxIdle

Classify ==
  /\ verdict = "unset"
  /\ verdict' = IF _is_public_ip(addr) THEN "public" ELSE "non-public"
  /\ UNCHANGED <<addr, guard_vars, app_vars, aux_vars>>

NextIp == Classify

SpecIp == InitIp /\ [][NextIp]_vars

\* ------------------------------------------------ SpecGuard: check_url_ssrf
\* "http://[::1": urlsplit raises ValueError("Invalid IPv6 URL")
MalformedUrl == MkUrl(FALSE, "http", "", NoHost, "", "")

GuardUrls ==
  { MkUrl(TRUE, "https", u, h, "", "") : u \in {"", "user:pw"}, h \in Hosts }
  \cup {MalformedUrl}

InitGuard ==
  /\ g_url \in GuardUrls
  /\ g_answer \in ResolverAnswers
  /\ g_done = FALSE
  /\ g_result = NoResult
  /\ IpIdle
  /\ AppInit
  /\ AuxIdle

GuardCheck ==
  /\ ~g_done
  /\ g_done' = TRUE
  /\ g_result' = check_url_ssrf(g_url, g_answer)
  /\ UNCHANGED <<g_url, g_answer, ip_vars, app_vars, aux_vars>>

NextGuard == GuardCheck

SpecGuard == InitGuard /\ [][NextGuard]_vars

\* ------------------------------------------------------------ the app log
\* A log record: the message (by its format string) and the URL text that is
\* written into it, NoUrl when the record carries no URL.
NoUrl ==
  [wellformed |-> TRUE, scheme |-> "", userinfo |-> "", host |-> [kind |-> "none", flags |-> {}],
   path |-> "", params |-> "", query |-> "", fragment |-> ""]

Rec(msg, url) == [msg |-> msg, url |-> url]

\* notify(title, subtitle, message): the record it logs; `url` is the URL
\* text inside `message`, NoUrl when there is none
notify(subtitle, url) == Rec("notification " \o subtitle, url)

\* The text of an exception raised by a library: it quotes the URL it was
\* given (requests' HTTPError: "... for url: <url>"), or it does not.
ExcTexts == {"quotes_url", "plain"}
ExcUrl(text, url) == IF text = "quotes_url" THEN url ELSE NoUrl

\* --------------------------------------------------------------- _set_status
\* The title symbols: "sending" is the ellipsis, "sent" the check mark, "!"
\* the blocked / error mark, "" the reset title.
\* _set_status(symbol, message, reset_after_s): the new <<title,
\* _last_status, _title_reset_timer>>.  The old timer is cancelled; a new one
\* is started only for a positive delay.
_set_status(symbol, message, reset_after_s) ==
  [title |-> symbol,
   last_status |-> IF message # "" THEN message ELSE last_status,
   timer |-> IF reset_after_s > 0
               THEN [pending |-> TRUE, delay |-> reset_after_s]
               ELSE [pending |-> FALSE, delay |-> timer.delay]]

\* the timer's _reset callback
TimerFire ==
  /\ timer.pending
  /\ title' = ""
  /\ timer' = [timer EXCEPT !.pending = FALSE]
  /\ UNCHANGED <<acts, workers_started, log, last_status, diag, ip_vars, guard_vars, aux_vars>>

\* ------------------------------------------------------------ send actions
\* What the user hands to a send action: nothing (dialog cancelled, empty
\* pasteboard), blank text, or a URL string.
NameUrl == MkUrl(TRUE, "https", "", NameHost, "token=s3cret", "frag")
LoopbackUrl == MkUrl(TRUE, "http", "", LiteralHost({"is_loopback"}), "", "")
FtpUrl == MkUrl(TRUE, "ftp", "", NameHost, "", "")
HostlessUrl == MkUrl(TRUE, "https", "user:pw", NoHost, "", "")
\* "https:///a": an http(s) scheme and an empty network location
NoNetlocUrl == MkUrl(TRUE, "https", "", NoHost, "", "")

AppUrls == {NameUrl, LoopbackUrl, FtpUrl, HostlessUrl, NoNetlocUrl, MalformedUrl}

\* What getaddrinfo does in a send action: one answer per way
\* check_url_ssrf can end
AppAnswers ==
  { a \in ResolverAnswers :
      /\ Len(a.addrinfos) <= 1
      /\ \A k \in 1..Len(a.addrinfos) :
           a.addrinfos[k] \in {Parsed({"is_global"}), Parsed({"is_loopback"}), Unparsed} }

Inputs ==
  { [kind |-> "none", url |-> NoUrl], [kind |-> "blank", url |-> NoUrl] }
  \cup { [kind |-> "text", url |-> u] : u \in AppUrls }

\* A send action: its entry point and input, how the handler ended, what
\* check_url_ssrf did and on which thread, and the progress of its worker.
NewAct(entry, input) ==
  [entry |-> entry, input |-> input, result |-> "",
   guard_calls |-> 0, guard_thread |-> "", guard_url |-> NoUrl, guard |-> NoResult,
   spawned |-> 0, worker_url |-> NoUrl, pc |-> "none",
   fetches |-> 0, fetched_url |-> NoUrl, emails |-> 0, email |-> "not called",
   notified |-> <<>>]

\* process_url starting the thread whatever the guard returned
process_url_proceeds_always(ssrf_err) == TRUE

\* lines 478-479: the thread is started only when check_url_ssrf returned None
process_url_proceeds(ssrf_err) == ssrf_err.ret = "None"

\* process_url(url, action) called from a menu callback, which runs on the
\* main (UI) thread.  Yields the finished action record and the rest of the
\* app state; an exception of check_url_ssrf leaves process_url.
process_url(act, url, answer, lg) ==
  LET ssrf_err == check_url_ssrf(url, answer)
      a1 == [act EXCEPT !.guard_calls = @ + 1, !.guard_thread = "MainThread",
                        !.guard_url = url, !.guard = ssrf_err]
  IN
  IF ssrf_err.exc # ""
    THEN [act |-> [a1 EXCEPT !.result = "raised"], log |-> lg, started |-> 0,
          status |-> [title |-> title, last_status |-> last_status, timer |-> timer]]
  ELSE IF ~process_url_proceeds(ssrf_err)
    THEN [act |-> [a1 EXCEPT !.result = "blocked"],
          log |-> lg \cup {Rec("SSRF blocked", NoUrl), notify("Blocked", NoUrl)},
          started |-> 0,
          status |-> _set_status("!", "Blocked URL", 8)]
  ELSE [act |-> [a1 EXCEPT !.result = "started", !.spawned = @ + 1, !.worker_url = url,
                        !.pc = "start"],
        log |-> lg \cup {notify("Starting...", NoUrl),
                         Rec("processing started", redact_url(url))},
        started |-> 1,
        status |-> _set_status("sending", "Sending", 0)]

Commit(r) ==
  /\ acts' = Append(acts, r.act)
  /\ log' = r.log
  /\ workers_started' = workers_started + r.started
  /\ title' = r.status.title
  /\ last_status' = r.status.last_status
  /\ timer' = r.status.timer
  /\ UNCHANGED <<diag, ip_vars, guard_vars, aux_vars>>

Unchanged(act, lg) ==
  [act |-> act, log |-> lg, started |-> 0,
   status |-> [title |-> title, last_status |-> last_status, timer |-> timer]]

\* KindleSendApp.send_article: the "Send Article to Kindle" callback
send_article ==
  /\ Len(acts) < MaxActions
  /\ \E input \in Inputs, answer \in AppAnswers :
       LET act == NewAct("paste_url", input)
           lg == log \cup {Rec("action invoked", NoUrl)}
           valid == is_valid_url(input.url)
       IN
       IF input.kind = "none"
         THEN Commit(Unchanged([act EXCEPT !.result = "canceled"],
                lg \cup {notify("Canceled", NoUrl), Rec("action canceled", NoUrl)}))
       ELSE IF input.kind = "blank"
         THEN Commit(Unchanged([act EXCEPT !.result = "canceled"],
                lg \cup {notify("Canceled", NoUrl), Rec("action canceled", NoUrl)}))
       ELSE IF valid.exc # ""
         THEN Commit(Unchanged([act EXCEPT !.result = "raised"], lg))
       ELSE IF ~valid.ret
         THEN Commit(Unchanged([act EXCEPT !.result = "invalid"],
                lg \cup {notify("Invalid URL", NoUrl), Rec("invalid url", NoUrl)}))
       ELSE Commit(process_url(act, input.url, answer, lg))

\* KindleSendApp.send_from_clipboard: the "Send from Clipboard" callback.
\* Its try/except turns any exception into a logged "Error" notification.
send_from_clipboard ==
  /\ Len(acts) < MaxActions
  /\ \E input \in Inputs, answer \in AppAnswers :
       LET act == NewAct("clipboard", input)
           lg == log \cup {Rec("action invoked", NoUrl)}
           valid == is_valid_url(input.url)
           caught(a, l) ==
             Unchanged([a EXCEPT !.result = "error"],
                       l \cup {Rec("clipboard action failed", NoUrl), notify("Error", NoUrl)})
       IN
       IF input.kind \in {"none", "blank"}
         THEN Commit(Unchanged([act EXCEPT !.result = "invalid"],
                lg \cup {notify("Invalid URL", NoUrl), Rec("invalid clipboard url", NoUrl)}))
       ELSE IF valid.exc # ""
         THEN Commit(caught(act, lg))
       ELSE IF ~valid.ret
         THEN Commit(Unchanged([act EXCEPT !.result = "invalid"],
                lg \cup {notify("Invalid URL", NoUrl), Rec("invalid clipboard url", NoUrl)}))
       ELSE LET lg2 == lg \cup {Rec("clipboard url detected", redact_url(input.url))}
                r == process_url(act, input.url, answer, lg2)
            IN IF r.act.result = "raised" THEN Commit(caught(r.act, r.log))
               ELSE Commit(r)

\* ------------------------------------------------------------- SMTP session
\* The calls of the `with smtplib.SMTP(...)` block, in order: the
\* constructor (connect), ehlo, starttls, ehlo, login, send_message; "quit"
\* is the QUIT that SMTP.__exit__ sends when the block is left.
SmtpSteps_no_starttls ==
  <<"connect", "ehlo", "ehlo", "login", "send_message">>

SmtpSteps ==
  <<"connect", "ehlo", "starttls", "ehlo", "login", "send_message">>

\* Which call raises: 0 = none, k = the k-th of SmtpSteps, Len + 1 = the QUIT
FailPoints == 0..(Len(SmtpSteps) + 1)

Cmd(c, ok) == [cmd |-> c, ok |-> ok]

\* The calls made when the call number fail_at raises: the ones before it
\* succeed, it fails, the rest of the block is skipped; once connected the
\* QUIT is sent in every case.
SmtpSession(fail_at) ==
  LET n == Len(SmtpSteps)
      last == IF fail_at \in 1..n THEN fail_at ELSE n
      body == [k \in 1..last |-> Cmd(SmtpSteps[k], k # fail_at)]
  IN IF fail_at = 1 THEN body ELSE Append(body, Cmd("quit", fail_at # n + 1))

\* kindle address, SMTP address, SMTP password: each set or empty
MailConfigs ==
  [kindle_email : {"", "me@kindle.com"}, smtp_email : {"", "a@x"},
   smtp_password : {"", "p1"}]

\* all([kindle_email, smtp_email, smtp_password])
MailConfigured(cfg) ==
  cfg.kindle_email # "" /\ cfg.smtp_email # "" /\ cfg.smtp_password # ""

\* KindleSendApp._send_email with cfg = (kindle_email, smtp_email,
\* get_smtp_password(smtp_email)): the exception that leaves it, the SMTP
\* calls made, and whether "email send start" / "email send end" were logged
_send_email(cfg, fail_at) ==
  IF ~MailConfigured(cfg)
    THEN [exc |-> "ValueError", trace |-> <<>>, log_start |-> FALSE, log_end |-> FALSE]
    ELSE LET trace == SmtpSession(fail_at) IN
         [exc |-> IF fail_at = 0 THEN "" ELSE "SMTPException",
          trace |-> trace,
          log_start |-> TRUE,
          log_end |-> \E k \in 1..Len(trace) : trace[k] = Cmd("send_message", TRUE)]

\* kindle_send.send_to_kindle: sys.exit(1) when a setting is missing
send_to_kindle(cfg, fail_at) ==
  IF ~MailConfigured(cfg)
    THEN [exc |-> "SystemExit", trace |-> <<>>, log_start |-> FALSE, log_end |-> FALSE]
    ELSE LET trace == SmtpSession(fail_at) IN
         [exc |-> IF fail_at = 0 THEN "" ELSE "SMTPException",
          trace |-> trace, log_start |-> FALSE, log_end |-> FALSE]

\* the message was handed over: send_message returned
Delivered(trace) ==
  \E k \in 1..Len(trace) : trace[k] = Cmd("send_message", TRUE)

\* ------------------------------------------------- _send_article_thread
Worker(i, pc) == i \in 1..Len(acts) /\ acts[i].pc = pc

SetStatus(st) ==
  /\ title' = st.title
  /\ last_status' = st.last_status
  /\ timer' = st.timer

\* lines 567-571: the handler of the outer try
Failed(i, act, lg, text) ==
  /\ acts' = [acts EXCEPT ![i] = [act EXCEPT !.pc = "done",
                                            !.notified = Append(@, "Error")]]
  /\ log' = lg \cup {Rec("processing failed", redact_url(act.worker_url)),
                     Rec("traceback", ExcUrl(text, act.worker_url)),
                     notify("Error", ExcUrl(text, act.worker_url))}
  /\ SetStatus(_set_status("!", "Error", 10))

\* lines 495-498: trafilatura.fetch_url
WorkerFetch(i) ==
  /\ Worker(i, "start")
  /\ LET act == [acts[i] EXCEPT !.fetches = @ + 1, !.fetched_url = acts[i].worker_url]
         lg == log \cup {Rec("extraction start", redact_url(act.worker_url))}
     IN
     \/ /\ acts' = [acts EXCEPT ![i] = [act EXCEPT !.pc = "extract"]]
        /\ log' = lg
        /\ UNCHANGED <<title, last_status, timer>>
     \/ /\ acts' = [acts EXCEPT ![i] = [act EXCEPT !.pc = "fallback"]]
        /\ log' = lg
        /\ UNCHANGED <<title, last_status, timer>>
     \/ \E text \in ExcTexts : Failed(i, act, lg, text)
  /\ UNCHANGED <<workers_started, diag, ip_vars, guard_vars, aux_vars>>

\* the fallback's except block without its return
AfterFetchFailed_no_return == "extract"

\* line 518: the return that ends the thread after a failed fallback
AfterFetchFailed == "done"

\* lines 499-518: the requests.get fallback
WorkerFallback(i) ==
  /\ Worker(i, "fallback")
  /\ LET act == [acts[i] EXCEPT !.fetches = @ + 1, !.fetched_url = acts[i].worker_url] IN
     \/ /\ acts' = [acts EXCEPT ![i] = [act EXCEPT !.pc = "extract"]]
        /\ log' = log \cup {Rec("fallback fetch succeeded", NoUrl)}
     \/ \E text \in ExcTexts :
          /\ acts' = [acts EXCEPT ![i] = [act EXCEPT !.pc = AfterFetchFailed,
                                                    !.notified = Append(@, "Error")]]
          /\ log' = log \cup {Rec("fetch failed", redact_url(act.worker_url)),
                              Rec("fetch failed traceback", ExcUrl(text, act.worker_url)),
                              notify("Error", ExcUrl(text, act.worker_url))}
  /\ UNCHANGED <<workers_started, title, last_status, timer, diag, ip_vars, guard_vars, aux_vars>>

\* lines 520-560: extract_metadata, extract, _wrap_html
WorkerExtract(i) ==
  /\ Worker(i, "extract")
  /\ LET act == acts[i] IN
     \/ /\ acts' = [acts EXCEPT ![i] = [act EXCEPT !.pc = "email"]]
        /\ log' = log \cup {Rec("extraction end", NoUrl), Rec("conversion start", NoUrl),
                            Rec("conversion end", NoUrl)}
        /\ UNCHANGED <<title, last_status, timer>>
     \/ /\ acts' = [acts EXCEPT ![i] = [act EXCEPT !.pc = "done",
                                                  !.notified = Append(@, "Error")]]
        /\ log' = log \cup {Rec("empty extraction result", redact_url(act.worker_url)),
                            notify("Error", NoUrl)}
        /\ UNCHANGED <<title, last_status, timer>>
     \/ Failed(i, act, log, "plain")
  /\ UNCHANGED <<workers_started, diag, ip_vars, guard_vars, aux_vars>>

\* self.config with the keychain password when a worker reaches _send_email:
\* complete, or with no password stored
AppConfigs ==
  { cfg \in MailConfigs : cfg.kindle_email # "" /\ cfg.smtp_email # "" }

\* lines 562-565: _send_email, then the "Sent" status and notification
WorkerSendEmail(i) ==
  /\ Worker(i, "email")
  /\ \E cfg \in AppConfigs :
     \E fail_at \in (IF MailConfigured(cfg) THEN FailPoints ELSE {0}) :
       LET res == _send_email(cfg, fail_at)
           act == [acts[i] EXCEPT !.emails = IF Delivered(res.trace) THEN @ + 1 ELSE @,
                                  !.email = IF res.exc = "" THEN "returned" ELSE "raised"]
           lg == log \cup (IF res.log_start THEN {Rec("email send start", NoUrl)} ELSE {})
                     \cup (IF res.log_end THEN {Rec("email send end", NoUrl)} ELSE {})
       IN
       IF res.exc # ""
         THEN Failed(i, act, lg, "plain")
         ELSE /\ acts' = [acts EXCEPT ![i] = [act EXCEPT !.pc = "done",
                                                        !.notified = Append(@, "Sent")]]
              /\ log' = lg \cup {notify("Sent", NoUrl)}
              /\ SetStatus(_set_status("sent", "Sent", 6))
  /\ UNCHANGED <<workers_started, diag, ip_vars, guard_vars, aux_vars>>

\* ------------------------------------------------ keen/diagnose.py: run(url)
DiagUrls == AppUrls

\* run(url): the whole run; the exit code is appended to diag
run ==
  /\ Len(diag) < MaxDiagRuns
  /\ \E url \in DiagUrls :
       LET lg == log \cup {Rec("diagnostics start", url)} IN
       \/ /\ diag' = Append(diag, 2)
          /\ log' = lg \cup {Rec("diagnostics fetch failed", url)}
       \/ /\ diag' = Append(diag, 0)
          /\ log' = lg \cup {Rec("diagnostics end", NoUrl)}
       \/ \E text \in ExcTexts :
            /\ diag' = Append(diag, 1)
            /\ log' = lg \cup {Rec("diagnostics failed", url),
                               Rec("traceback", ExcUrl(text, url))}
  /\ UNCHANGED <<acts, workers_started, title, last_status, timer, ip_vars, guard_vars, aux_vars>>

\* ------------------------------------------------------------------- Spec
Init == AppInit /\ IpIdle /\ GuardIdle /\ AuxIdle

Next ==
  \/ send_article
  \/ send_from_clipboard
  \/ \E i \in 1..MaxActions : WorkerFetch(i)
  \/ \E i \in 1..MaxActions : WorkerFallback(i)
  \/ \E i \in 1..MaxActions : WorkerExtract(i)
  \/ \E i \in 1..MaxActions : WorkerSendEmail(i)
  \/ TimerFire

\* the menu-bar app
Spec == Init /\ [][Next]_vars

\* The worker threads are scheduled and every external call returns or
\* raises: each enabled step of a worker is eventually taken.
NextLive ==
  \/ (send_article /\ Len(acts') <= MaxLiveSends)
  \/ (send_from_clipboard /\ Len(acts') <= MaxLiveSends)
  \/ \E i \in 1..MaxLiveSends : WorkerFetch(i)
  \/ \E i \in 1..MaxLiveSends : WorkerFallback(i)
  \/ \E i \in 1..MaxLiveSends : WorkerExtract(i)
  \/ \E i \in 1..MaxLiveSends : WorkerSendEmail(i)
  \/ TimerFire

SpecLive ==
  /\ Init /\ [][NextLive]_vars
  /\ \A i \in 1..MaxLiveSends :
       /\ WF_vars(WorkerFetch(i))
       /\ WF_vars(WorkerFallback(i))
       /\ WF_vars(WorkerExtract(i))
       /\ WF_vars(WorkerSendEmail(i))

NextDiag == run

\* the diagnostics CLI, run MaxDiagRuns times
SpecDiag == Init /\ [][NextDiag]_vars

\* --------------------------------------------------- SpecRedact: redact_url
\* URL strings with and without credentials, path parameters, a query
\* string and a fragment, and the string urlparse raises on
RedactUrls ==
  { [MkUrl(TRUE, sc, u, h, q, f) EXCEPT !.params = pa] :
      sc \in {"http", "https"}, u \in {"", "user:pw"},
      h \in {NameHost, LiteralHost({"is_global"})},
      pa \in {"", "sid=1"}, q \in {"", "token=s3cret"}, f \in {"", "frag"} }
  \cup {MalformedUrl}

InitRedact ==
  /\ r_in \in RedactUrls \X RedactUrls
  /\ r_out = <<>>
  /\ IpIdle /\ GuardIdle /\ AppInit
  /\ SmtpIdle /\ CfgIdle /\ StatusIdle

Redact ==
  /\ r_out = <<>>
  /\ r_out' = <<redact_url(r_in[1]), redact_url(r_in[2])>>
  /\ UNCHANGED <<r_in, ip_vars, guard_vars, app_vars, smtp_vars, cfg_vars, status_vars>>

NextRedact == Redact

SpecRedact == InitRedact /\ [][NextRedact]_vars

\* ------------------------------------------- SpecSmtp: the SMTP sessions
Programs == {"kindle_menubar", "kindle_send"}

InitSmtp ==
  /\ m_in \in [prog : Programs, cfg : MailConfigs, fail_at : FailPoints]
  /\ m_out = <<>>
  /\ IpIdle /\ GuardIdle /\ AppInit
  /\ RedactIdle /\ CfgIdle /\ StatusIdle

SendMail ==
  /\ m_out = <<>>
  /\ m_out' = IF m_in.prog = "kindle_menubar"
                THEN <<_send_email(m_in.cfg, m_in.fail_at)>>
                ELSE <<send_to_kindle(m_in.cfg, m_in.fail_at)>>
  /\ UNCHANGED <<m_in, ip_vars, guard_vars, app_vars, redact_vars, cfg_vars, status_vars>>

NextSmtp == SendMail

SpecSmtp == InitSmtp /\ [][NextSmtp]_vars

\* ------------------------------- SpecConfig: config.json and the keychain
\* number of configuration operations (app starts, settings dialogs) in a run
MaxConfigOps == 2

\* A dict with the keys kindle_email, smtp_email, smtp_password is a record;
\* Absent marks a key the dict does not have.  (smtp_server and smtp_port
\* are carried along unchanged by every operation and are left out.)
Absent == "<absent>"

EmptyDict == [kindle_email |-> Absent, smtp_email |-> Absent, smtp_password |-> Absent]

\* dict.get(key, "")
Get(d, key) == IF d[key] = Absent THEN "" ELSE d[key]

\* dict.update(saved)
Update(d, saved) ==
  [key \in DOMAIN d |-> IF saved[key] # Absent THEN saved[key] ELSE d[key]]

\* dict.pop(key, None)
Pop(d, key) == [d EXCEPT ![key] = Absent]

\* config.json: missing, holding a JSON object, or not decodable
NoFile == [kind |-> "missing", data |-> EmptyDict]
CorruptFile == [kind |-> "corrupt", data |-> EmptyDict]
JsonFile(d) == [kind |-> "ok", data |-> d]

\* The keychain entries of service KEYRING_SERVICE: account -> password,
\* "" where keyring.get_password returns None
Accounts == {"", "a@x", "b@x"}
EmptyKeyring == [a \in Accounts |-> ""]

\* get_smtp_password(smtp_email); fault: keyring.get_password raises
get_smtp_password(kr, smtp_email, fault) ==
  IF smtp_email = "" THEN ""
  ELSE IF fault THEN ""
  ELSE kr[smtp_email]

\* set_smtp_password(smtp_email, password); fault: keyring.set_password raises
set_smtp_password(kr, smtp_email, password, fault) ==
  [exc |-> fault,
   keyring |-> IF fault THEN kr ELSE [kr EXCEPT ![smtp_email] = password]]

\* How save_config ends: written; mkdir or open raise and the file is as it
\* was; json.dump raises after open(..., "w") truncated the file
SaveOutcomes == {"ok", "open_failed", "write_failed"}

save_config(cf, d, outcome) ==
  [exc |-> outcome # "ok",
   file |-> CASE outcome = "ok" -> JsonFile(d)
              [] outcome = "open_failed" -> cf
              [] OTHER -> CorruptFile]

\* migrate_password_to_keyring without the save_config call
migrate_password_to_keyring_no_save(d, cf, kr, kr_fault, save_outcome) ==
  LET password == Get(d, "smtp_password")
      smtp_email == Get(d, "smtp_email")
      set == set_smtp_password(kr, smtp_email, password, kr_fault)
  IN IF password # "" /\ smtp_email # "" /\ ~set.exc
       THEN [config |-> Pop(d, "smtp_password"), file |-> cf,
             keyring |-> set.keyring, migrated |-> TRUE]
       ELSE [config |-> d, file |-> cf, keyring |-> kr, migrated |-> FALSE]

\* migrate_password_to_keyring(config): the dict (changed in place), the
\* file and the keychain afterwards
migrate_password_to_keyring(d, cf, kr, kr_fault, save_outcome) ==
  LET password == Get(d, "smtp_password")
      smtp_email == Get(d, "smtp_email")
      set == set_smtp_password(kr, smtp_email, password, kr_fault)
      popped == Pop(d, "smtp_password")
      saved == save_config(cf, popped, save_outcome)
  IN IF password # "" /\ smtp_email # ""
       THEN IF set.exc
              THEN [config |-> d, file |-> cf, keyring |-> kr, migrated |-> FALSE]
              ELSE [config |-> popped, file |-> saved.file,
                    keyring |-> set.keyring, migrated |-> ~saved.exc]
       ELSE [config |-> d, file |-> cf, keyring |-> kr, migrated |-> FALSE]

\* The dict load_config hands to migrate_password_to_keyring: the
\* environment's values, updated with the file's when the file exists and
\* is read; read_fault: open or read raise OSError
MergedConfig(env, cf, read_fault) ==
  LET defaults == [kindle_email |-> env.KINDLE_EMAIL, smtp_email |-> env.SMTP_EMAIL,
                   smtp_password |-> Absent]
  IN IF cf.kind = "ok" /\ ~read_fault THEN Update(defaults, cf.data) ELSE defaults

\* load_config(): the returned dict, the file and the keychain afterwards
load_config(env, cf, kr, read_fault, kr_fault, save_outcome) ==
  LET m == migrate_password_to_keyring(MergedConfig(env, cf, read_fault), cf, kr,
                                       kr_fault, save_outcome)
  IN [m EXCEPT !.config = Pop(@, "smtp_password")]

\* A dialog's answer: Cancel, or Next / Save with the stripped text
Cancelled == [clicked |-> FALSE, text |-> ""]
Clicked(text) == [clicked |-> TRUE, text |-> text]

\* open_settings with the answers r1, r2, r3 of the three dialogs: the
\* in-memory config, the file and the keychain afterwards; `cancelled` is
\* the dialog that was cancelled (0: none), `exc` whether an exception left
\* the callback
open_settings(d, cf, kr, r1, r2, r3, kr_fault, save_outcome) ==
  LET d1 == [d EXCEPT !.kindle_email = r1.text]
      d2 == [d1 EXCEPT !.smtp_email = r2.text]
      set == set_smtp_password(kr, d2.smtp_email, r3.text, kr_fault)
      kr3 == IF r3.text # "" THEN set.keyring ELSE kr
      saved == save_config(cf, d2, save_outcome)
  IN CASE ~r1.clicked ->
            [config |-> d, file |-> cf, keyring |-> kr, cancelled |-> 1, exc |-> FALSE]
       [] r1.clicked /\ ~r2.clicked ->
            [config |-> d1, file |-> cf, keyring |-> kr, cancelled |-> 2, exc |-> FALSE]
       [] r1.clicked /\ r2.clicked /\ ~r3.clicked ->
            [config |-> d2, file |-> cf, keyring |-> kr, cancelled |-> 3, exc |-> FALSE]
       [] OTHER ->
            IF r3.text # "" /\ set.exc
              THEN [config |-> d2, file |-> cf, keyring |-> kr, cancelled |-> 0,
                    exc |-> TRUE]
              ELSE [config |-> d2, file |-> saved.file, keyring |-> kr3,
                    cancelled |-> 0, exc |-> saved.exc]

\* the environment variables KINDLE_EMAIL and SMTP_EMAIL: unset or set
Environs ==
  { [KINDLE_EMAIL |-> "", SMTP_EMAIL |-> ""],
    [KINDLE_EMAIL |-> "k@kindle.com", SMTP_EMAIL |-> "a@x"] }

\* config.json as an old or a current version of the app left it
ConfigFiles ==
  { JsonFile([kindle_email |-> k, smtp_email |-> s, smtp_password |-> p]) :
      k \in {Absent, "k@kindle.com"}, s \in {Absent, "", "a@x"},
      p \in {Absent, "", "p1"} }
  \cup {NoFile, CorruptFile}

\* the texts typed into the three dialogs
Answers1 == {Cancelled, Clicked(""), Clicked("k2@kindle.com")}
Answers2 == {Cancelled, Clicked(""), Clicked("a@x"), Clicked("b@x")}
Answers3 == {Cancelled, Clicked(""), Clicked("p2")}

\* cfg_hist: the last operation, with the state it started from
NoOp ==
  [n |-> 0, op |-> "none", config |-> EmptyDict, file |-> NoFile,
   keyring |-> EmptyKeyring, read_fault |-> FALSE, kr_fault |-> FALSE,
   save_outcome |-> "ok", cancelled |-> 0, password_text |-> "", exc |-> FALSE]

InitConfig ==
  /\ environ \in Environs
  /\ config_file \in ConfigFiles
  /\ keyring \in { [EmptyKeyring EXCEPT !["a@x"] = p] : p \in {"", "old"} }
  /\ config = EmptyDict
  /\ cfg_hist = NoOp
  /\ IpIdle /\ GuardIdle /\ AppInit
  /\ RedactIdle /\ SmtpIdle /\ StatusIdle

\* the app starts: KindleSendApp.__init__ sets self.config = load_config()
AppStart ==
  /\ cfg_hist.n < MaxConfigOps
  /\ \E read_fault, kr_fault \in BOOLEAN, save_outcome \in SaveOutcomes :
       LET res == load_config(environ, config_file, keyring, read_fault, kr_fault,
                              save_outcome)
       IN /\ config' = res.config
          /\ config_file' = res.file
          /\ keyring' = res.keyring
          /\ cfg_hist' = [NoOp EXCEPT !.n = cfg_hist.n + 1, !.op = "load_config",
                            !.config = config, !.file = config_file,
                            !.keyring = keyring, !.read_fault = read_fault,
                            !.kr_fault = kr_fault, !.save_outcome = save_outcome]
  /\ UNCHANGED <<environ, ip_vars, guard_vars, app_vars, redact_vars, smtp_vars, status_vars>>

\* the Settings... menu item of the running app
Settings ==
  /\ cfg_hist.n \in 1..(MaxConfigOps - 1)
  /\ \E r1 \in Answers1, r2 \in Answers2, r3 \in Answers3,
        kr_fault \in BOOLEAN, save_outcome \in SaveOutcomes :
       LET res == open_settings(config, config_file, keyring, r1, r2, r3, kr_fault,
                                save_outcome)
       IN /\ config' = res.config
          /\ config_file' = res.file
          /\ keyring' = res.keyring
          /\ cfg_hist' = [NoOp EXCEPT !.n = cfg_hist.n + 1, !.op = "open_settings",
                            !.config = config, !.file = config_file,
                            !.keyring = keyring, !.kr_fault = kr_fault,
                            !.save_outcome = save_outcome,
                            !.cancelled = res.cancelled,
                            !.password_text = IF r3.clicked THEN r3.text ELSE "",
                            !.exc = res.exc]
  /\ UNCHANGED <<environ, ip_vars, guard_vars, app_vars, redact_vars, smtp_vars, status_vars>>

NextConfig == AppStart \/ Settings

SpecConfig == InitConfig /\ [][NextConfig]_vars

\* ------------------------- SpecStatus: _set_status and its timers, stepwise
\* number of _set_status calls in a run
MaxStatusCalls == 2

\* The _set_status calls of the program: the thread that makes them, the
\* symbol, the message and reset_after_s (lines 481, 485, 564, 570)
StatusCalls ==
  { [thread |-> "ui", symbol |-> "!", message |-> "Blocked URL", reset_after_s |-> 8],
    [thread |-> "ui", symbol |-> "sending", message |-> "Sending", reset_after_s |-> 0],
    [thread |-> "worker", symbol |-> "sent", message |-> "Sent", reset_after_s |-> 6],
    [thread |-> "worker", symbol |-> "!", message |-> "Error", reset_after_s |-> 10] }

\* A call is at one of the statements of _set_status: "last_status" (line
\* 349), "cancel" (351-353), "title" (357), "timer" (368-369: the Timer is
\* created and stored), "start" (371), or it is "done".
\* A threading.Timer is "created", then "pending" once started; its thread
\* wakes after the delay and, unless cancel() was called before, is "firing"
\* (past the finished.is_set() test, about to call _reset), then "fired".
\* cancel() turns a created or pending timer into "cancelled" and has no
\* effect on a firing or fired one.
InitStatus ==
  /\ calls = <<>>
  /\ timers = <<>>
  /\ timer_ref = 0
  /\ title_by = 0
  /\ IpIdle /\ GuardIdle /\ AppInit
  /\ RedactIdle /\ SmtpIdle /\ CfgIdle

StatusFrame ==
  UNCHANGED <<acts, workers_started, log, timer, diag, ip_vars, guard_vars,
              redact_vars, smtp_vars, cfg_vars>>

At(c, pc) == c \in 1..Len(calls) /\ calls[c].pc = pc

Goto(c, pc) == calls' = [calls EXCEPT ![c].pc = pc]

\* a thread enters _set_status; the UI thread makes one call at a time
SetStatusCall ==
  /\ Len(calls) < MaxStatusCalls
  /\ \E sc \in StatusCalls :
       /\ sc.thread = "ui"
            => \A c \in 1..Len(calls) : calls[c].thread = "ui" => calls[c].pc = "done"
       /\ calls' = Append(calls, [thread |-> sc.thread, symbol |-> sc.symbol,
                                  message |-> sc.message,
                                  reset_after_s |-> sc.reset_after_s,
                                  pc |-> "last_status"])
  /\ UNCHANGED <<title, last_status, timers, timer_ref, title_by>>
  /\ StatusFrame

\* line 349
SetStatusMessage(c) ==
  /\ At(c, "last_status")
  /\ last_status' = calls[c].message
  /\ Goto(c, "cancel")
  /\ UNCHANGED <<title, timers, timer_ref, title_by>>
  /\ StatusFrame

\* lines 351-353
SetStatusCancel(c) ==
  /\ At(c, "cancel")
  /\ timers' = IF timer_ref # 0 /\ timers[timer_ref].state \in {"created", "pending"}
                 THEN [timers EXCEPT ![timer_ref].state = "cancelled"]
                 ELSE timers
  /\ Goto(c, "title")
  /\ UNCHANGED <<title, last_status, timer_ref, title_by>>
  /\ StatusFrame

\* line 357; title_by is the call whose symbol the title shows
SetStatusTitle(c) ==
  /\ At(c, "title")
  /\ title' = calls[c].symbol
  /\ title_by' = c
  /\ Goto(c, IF calls[c].reset_after_s > 0 THEN "timer" ELSE "done")
  /\ UNCHANGED <<last_status, timers, timer_ref>>
  /\ StatusFrame

\* lines 368-369
SetStatusTimer(c) ==
  /\ At(c, "timer")
  /\ timers' = Append(timers, [by |-> c, state |-> "created", cleared |-> 0])
  /\ timer_ref' = Len(timers) + 1
  /\ Goto(c, "start")
  /\ UNCHANGED <<title, last_status, title_by>>
  /\ StatusFrame

\* line 371
SetStatusStart(c) ==
  /\ At(c, "start")
  /\ \E t \in 1..Len(timers) :
       /\ timers[t].by = c
       /\ timers' = IF timers[t].state = "created"
                      THEN [timers EXCEPT ![t].state = "pending"]
                      ELSE timers
  /\ Goto(c, "done")
  /\ UNCHANGED <<title, last_status, timer_ref, title_by>>
  /\ StatusFrame

\* Timer.run: the delay is over and the timer was not cancelled
TimerExpire(t) ==
  /\ t \in 1..Len(timers)
  /\ timers[t].state = "pending"
  /\ timers' = [timers EXCEPT ![t].state = "firing"]
  /\ UNCHANGED <<calls, title, last_status, timer_ref, title_by>>
  /\ StatusFrame

\* _reset (lines 361-365); `cleared` records the call whose symbol it clears
TimerReset(t) ==
  /\ t \in 1..Len(timers)
  /\ timers[t].state = "firing"
  /\ title' = ""
  /\ title_by' = 0
  /\ timers' = [timers EXCEPT ![t].state = "fired", ![t].cleared = title_by]
  /\ UNCHANGED <<calls, last_status, timer_ref>>
  /\ StatusFrame

NextStatus ==
  \/ SetStatusCall
  \/ \E c \in 1..MaxStatusCalls : SetStatusMessage(c)
  \/ \E c \in 1..MaxStatusCalls : SetStatusCancel(c)
  \/ \E c \in 1..MaxStatusCalls : SetStatusTitle(c)
  \/ \E c \in 1..MaxStatusCalls : SetStatusTimer(c)
  \/ \E c \in 1..MaxStatusCalls : SetStatusStart(c)
  \/ \E t \in 1..MaxStatusCalls : TimerExpire(t)
  \/ \E t \in 1..MaxStatusCalls : TimerReset(t)

SpecStatus == InitStatus /\ [][NextStatus]_vars

\* ================================================================ claims
OnlyGlobal == {"is_global"}

LiteralChecked ==
  g_done /\ g_url.wellformed /\ g_url.host.kind = "literal"

NameChecked ==
  g_done /\ g_url.wellformed /\ g_url.host.kind = "name"

AllParsed(addrinfos) == \A k \in 1..Len(addrinfos) : addrinfos[k].ok

\* C1: in every send action a fetch (fetch_url or the requests.get fallback)
\* happens only after check_url_ssrf returned None for that same URL in that
\* action; after a rejection no worker is started, nothing is fetched or
\* sent, and the check ran exactly once.
C1_FetchOnlyAfterAllowed ==
  \A i \in 1..Len(acts) :
    LET a == acts[i] IN
    /\ (a.spawned > 0 \/ a.pc # "none" \/ a.fetches > 0 \/ a.emails > 0)
         => /\ a.guard_calls = 1
            /\ Allowed(a.guard)
            /\ a.guard_url = a.worker_url
            /\ a.fetches > 0 => a.fetched_url = a.guard_url
    /\ (a.guard_calls > 0 /\ ~Allowed(a.guard))
         => /\ a.guard_calls = 1
            /\ a.spawned = 0 /\ a.pc = "none"
            /\ a.fetches = 0 /\ a.emails = 0

C1_Witness ==
  \E i, j \in 1..Len(acts) :
    /\ acts[i].fetches = 2 /\ Allowed(acts[i].guard)
    /\ acts[j].result = "blocked" /\ Rejected(acts[j].guard)

\* C2: a URL whose hostname is a literal address carrying any of the six
\* non-public flags is rejected with the non-public-literal reason, whatever
\* the resolver would answer.
C2_NonPublicLiteralRejected ==
  (LiteralChecked /\ g_url.host.flags \cap NonPublicFlags # {})
    => (g_result.exc = "" /\ g_result.ret = R_LiteralNonPublic)

C2_Witness ==
  /\ LiteralChecked
  /\ g_url.host.flags = {"is_global", "is_multicast"}
  /\ g_answer = [kind |-> "ok", addrinfos |-> <<Parsed(OnlyGlobal)>>]
  /\ g_result.ret = R_LiteralNonPublic

\* C3: a URL whose hostname is a literal public address is allowed at once,
\* without calling the resolver, whatever the resolver would do.
C3_PublicLiteralAllowedWithoutDns ==
  (LiteralChecked /\ g_url.host.flags = OnlyGlobal)
    => (Allowed(g_result) /\ ~g_result.dns)

\* C4: for a DNS name resolving to a non-empty list of parseable addresses,
\* the result is "allowed" exactly when every address is public, and a
\* rejection otherwise.
C4_AllowedIffAllResolvedPublic ==
  (/\ NameChecked
   /\ g_answer.kind = "ok" /\ g_answer.addrinfos # <<>>
   /\ AllParsed(g_answer.addrinfos))
    => /\ Allowed(g_result)
            <=> \A k \in 1..Len(g_answer.addrinfos) :
                  g_answer.addrinfos[k].flags = OnlyGlobal
       /\ ~Allowed(g_result) => Rejected(g_result)

C4_Witness ==
  /\ NameChecked
  /\ g_answer = [kind |-> "ok",
                 addrinfos |-> <<Parsed(OnlyGlobal), Parsed({"is_link_local"})>>]
  /\ g_result.ret = R_ResolvedNonPublic

\* C5: when getaddrinfo raises gaierror or returns an empty list, the result
\* is a rejection with the resolution-failed / no-results reason; no failed
\* or empty resolution ends in "allowed".
C5_FailClosed ==
  /\ (g_done /\ g_result.dns /\ g_answer.kind = "gaierror")
       => (g_result.exc = "" /\ g_result.ret = R_DnsFailed)
  /\ (g_done /\ g_result.dns /\ g_answer.kind = "ok" /\ g_answer.addrinfos = <<>>)
       => (g_result.exc = "" /\ g_result.ret = R_DnsEmpty)
  /\ (g_done /\ (g_answer.kind # "ok" \/ g_answer.addrinfos = <<>>))
       => ~Allowed(g_result)

C5_Witness ==
  /\ NameChecked
  /\ g_answer.kind = "gaierror"
  /\ g_result.dns
  /\ g_result.ret = R_DnsFailed

\* C6: no send action ends with an exception leaving the handler, and
\* check_url_ssrf never raises: every input ends in a rejection value.
C6_NoExceptionEscapes ==
  \A i \in 1..Len(acts) :
    acts[i].result # "raised" /\ acts[i].guard.exc = ""

\* C7: _is_public_ip answers True exactly for the addresses whose only flag
\* is is_global: any of the six other flags makes the address non-public,
\* also when is_global is set.
C7_PublicIffOnlyGlobal ==
  verdict # "unset" => (verdict = "public" <=> addr = OnlyGlobal)

C7_Witness ==
  /\ verdict = "non-public"
  /\ addr = {"is_global", "is_reserved"}

\* C8: no log record carries the query string or the fragment of a URL.
C8_NoRawUrlLogged ==
  \A r \in log : r.url.query = "" /\ r.url.fragment = ""

\* C9: check_url_ssrf (and its getaddrinfo) never runs on the main (UI)
\* thread.
C9_GuardOffUiThread ==
  \A i \in 1..Len(acts) :
    acts[i].guard_calls > 0 => acts[i].guard_thread # "MainThread"

\* C10: a send action starts one worker thread when its URL is a valid
\* http(s) URL and the guard allowed it, none otherwise; the number of
\* threads ever started is the number of such actions, so never more than
\* the number of actions.
ValidHttpUrl(input) ==
  /\ input.kind = "text"
  /\ input.url.wellformed
  /\ input.url.scheme \in {"http", "https"}
  /\ (input.url.userinfo # "" \/ input.url.host.kind # "none")

C10_AtMostOneWorkerPerAction ==
  /\ \A i \in 1..Len(acts) :
       /\ acts[i].spawned \in {0, 1}
       /\ acts[i].spawned = 1
            <=> (ValidHttpUrl(acts[i].input) /\ Allowed(acts[i].guard))
  /\ workers_started = Cardinality({ i \in 1..Len(acts) : acts[i].spawned = 1 })
  /\ workers_started <= Len(acts)

C10_Witness ==
  \E i, j \in 1..Len(acts) :
    /\ acts[i].spawned = 1 /\ acts[i].entry = "paste_url"
    /\ acts[j].spawned = 1 /\ acts[j].entry = "clipboard"
    /\ workers_started = 2

\* C14: from either entry point, check_url_ssrf is called, and a fetch is
\* made, only on a URL whose scheme is http or https and whose network
\* location is not empty.
HttpWithNetloc(url) ==
  /\ url.wellformed
  /\ url.scheme \in {"http", "https"}
  /\ (url.userinfo # "" \/ url.host.kind # "none")

C14_GuardOnlyOnHttpUrls ==
  \A i \in 1..Len(acts) :
    /\ acts[i].guard_calls > 0 => HttpWithNetloc(acts[i].guard_url)
    /\ acts[i].fetches > 0 => HttpWithNetloc(acts[i].fetched_url)
    /\ (acts[i].input.kind = "text" /\ ~HttpWithNetloc(acts[i].input.url))
         => (acts[i].guard_calls = 0 /\ acts[i].fetches = 0)

C14_Witness ==
  \E i, k \in 1..Len(acts) :
    /\ acts[i].entry = "paste_url" /\ acts[i].input.url = NoNetlocUrl
    /\ acts[i].result = "invalid" /\ acts[i].guard_calls = 0
    /\ acts[k].entry = "clipboard" /\ acts[k].input.url = HostlessUrl
    /\ acts[k].guard_calls = 1

\* C16: two URLs that agree on scheme, host and path get the same redacted
\* text, whatever their credentials, path parameters, query and fragment;
\* a string urlparse raises on gets the placeholder.
C16_RedactKeepsOnlySchemeHostPath ==
  r_out # <<>> =>
    /\ (/\ r_in[1].wellformed /\ r_in[2].wellformed
        /\ r_in[1].scheme = r_in[2].scheme
        /\ r_in[1].host = r_in[2].host
        /\ r_in[1].path = r_in[2].path)
         => r_out[1] = r_out[2]
    /\ \A k \in 1..2 : ~r_in[k].wellformed => r_out[k] = UnparseableUrl

\* C15: in every SMTP session of the app and of the CLI, login and
\* send_message are called only after starttls returned on that connection;
\* when starttls raises neither is called; when the kindle address, the
\* SMTP address or the password is missing no connection is opened.
MailTrace == m_out[1].trace

Transmits(k) == MailTrace[k].cmd \in {"login", "send_message"}

C15_StartTlsBeforeCredentials ==
  m_out # <<>> =>
    /\ \A k \in 1..Len(MailTrace) :
         Transmits(k) => \E j \in 1..(k - 1) : MailTrace[j] = Cmd("starttls", TRUE)
    /\ (\E j \in 1..Len(MailTrace) : MailTrace[j] = Cmd("starttls", FALSE))
         => ~\E k \in 1..Len(MailTrace) : Transmits(k)
    /\ (m_in.cfg.kindle_email = "" \/ m_in.cfg.smtp_email = ""
          \/ m_in.cfg.smtp_password = "")
         => (MailTrace = <<>> /\ m_out[1].exc # "")

C15_Witness ==
  /\ m_out # <<>>
  /\ m_in.prog = "kindle_menubar"
  /\ MailTrace = <<Cmd("connect", TRUE), Cmd("ehlo", TRUE), Cmd("starttls", FALSE),
                   Cmd("quit", TRUE)>>

\* C12: every started worker ends, having issued exactly one terminal
\* notification, "Sent" or "Error"; "Sent" only when _send_email returned
\* without an exception; once "Error" is issued no email is sent for that
\* worker.
Running(i) == i <= Len(acts) /\ acts[i].pc \in {"start", "fallback", "extract", "email"}

Finished(i) == i <= Len(acts) /\ acts[i].pc = "done"

OneTerminalNotification ==
  \A i \in 1..Len(acts) :
    /\ acts[i].pc \in {"none", "start", "fallback", "extract", "email"}
         => acts[i].notified = <<>>
    /\ acts[i].pc = "done"
         => /\ acts[i].notified \in {<<"Sent">>, <<"Error">>}
            /\ acts[i].notified = <<"Sent">>
                 => (acts[i].email = "returned" /\ acts[i].emails = 1)

NoEmailAfterError ==
  \A i \in 1..Len(acts) :
    (\E k \in 1..Len(acts[i].notified) : acts[i].notified[k] = "Error")
      => acts'[i].emails = acts[i].emails

C12_WorkerEndsWithOneNotification ==
  /\ []OneTerminalNotification
  /\ [][NoEmailAfterError]_vars
  /\ \A i \in 1..MaxLiveSends : Running(i) ~> Finished(i)

C12_Witness ==
  \E i \in 1..Len(acts) :
    /\ acts[i].notified = <<"Sent">>
    /\ acts[i].fetches = 2

\* C17: once every send has finished and no reset timer is pending, the
\* menu-bar title is the empty title: no status symbol stays displayed.
C17_NoSymbolLeftDisplayed ==
  ((\A i \in 1..Len(acts) : ~Running(i)) /\ ~timer.pending) => title = ""

\* C11: when every send so far started a worker, a send in progress shows
\* the in-progress symbol until it ends, as it does when it runs alone: no
\* other send replaces or clears the title.
C11_RunningSendShowsInProgress ==
  (\A j \in 1..Len(acts) : acts[j].spawned = 1)
    => \A i \in 1..Len(acts) : Running(i) => title = "sending"

\* C13 (original statement): whenever config.json holds a non-empty
\* smtp_password as load_config runs, afterwards the keychain stores that
\* password, config.json has no smtp_password key and the returned dict has
\* none.
HadPlainPassword ==
  /\ cfg_hist.op = "load_config"
  /\ cfg_hist.file.kind = "ok"
  /\ Get(cfg_hist.file.data, "smtp_password") # ""

PlainPassword == cfg_hist.file.data.smtp_password

MergedEmail ==
  IF cfg_hist.file.data.smtp_email # Absent
    THEN cfg_hist.file.data.smtp_email
    ELSE environ.SMTP_EMAIL

SameSettings(d1, d2) == \A key \in DOMAIN d1 : Get(d1, key) = Get(d2, key)

C19_CancelLeavesConfigUnchanged ==
  cfg_hist.op = "open_settings" =>
    /\ cfg_hist.cancelled # 0
         => /\ SameSettings(config, cfg_hist.config)
            /\ config_file = cfg_hist.file
            /\ keyring = cfg_hist.keyring
    /\ (cfg_hist.cancelled = 0 /\ cfg_hist.password_text = "")
         => keyring = cfg_hist.keyring

\* C18: at most one reset timer is pending, and a reset timer clears only
\* the title set by the _set_status call that created it: never the title
\* of a later call.
PendingTimers == { t \in 1..Len(timers) : timers[t].state = "pending" }

AtMostOnePendingTimer == Cardinality(PendingTimers) <= 1

NoStaleReset ==
  \A t \in 1..Len(timers) :
    timers[t].state = "fired" => timers[t].cleared \in {0, timers[t].by}

C18_OneTimerAndNoStaleReset == AtMostOnePendingTimer /\ NoStaleReset

====
